---- MODULE Spec2Model ----
(***************************************************************************)
(* A model of numato_relay_board.py: the RelayBoard handle, its serial     *)
(* transport and the device's line protocol.                               *)
(*                                                                         *)
(* Text is modelled as a sequence of one-character strings, so the wire    *)
(* commands and the replies are the bytes the code writes and splits.      *)
(* A Python int is modelled without a width, as a sign and the set of the  *)
(* bit positions of its magnitude: [neg |-> BOOLEAN, bits |-> SUBSET Nat]. *)
(* The bytes the device sends are ASCII, as its protocol is, so that       *)
(* str(response, 'utf-8') always decodes them.                             *)
(*                                                                         *)
(* An operation is one step when it ends before it reaches the transport,  *)
(* and otherwise a step for its write, a step for its read (clear_buffer:  *)
(* a step for the call and one for each turn of its loop). op, args, io    *)
(* and result describe the operation running, or the last one run.         *)
(***************************************************************************)
EXTENDS Integers, Sequences, FiniteSets, TLC

\* ------------------------------------------------------------- bounds

\* clear_buffer is called with retry_limit in 0..MaxRetryLimit.
MaxRetryLimit == 3
\* GPIO and ADC ports are drawn from -PortSlack .. 9 + PortSlack.
PortSlack == 2
\* Lists of length up to ExhaustLen are passed to set_relay with every content.
ExhaustLen == 4
\* Names passed to set_device_name have at most MaxNameLen characters
\* (and two fixed longer names).
MaxNameLen == 1

\* --------------------------------------------------- program constants

GpioPorts == 10
AdcPorts == 5
NameWidth == 8
NameLow == 48
NameHigh == 121
ReadName == 100
ReadClear == 50
ReadGpio == 100
ReadSetGpio == 50
ReadAdc == 50
ReadRelay == 100
AdcFull == 1023

\* ------------------------------------------------------- Python text

CR == "\r"
LF == "\n"

HexChars == <<"0","1","2","3","4","5","6","7","8","9","a","b","c","d","e","f">>
DecChars == <<"0","1","2","3","4","5","6","7","8","9">>

\* The value of a digit character in a base, or -1.
DigitValue(ch, base) ==
  LET up == [c \in {"A","B","C","D","E","F"} |->
               CASE c = "A" -> "a" [] c = "B" -> "b" [] c = "C" -> "c"
                 [] c = "D" -> "d" [] c = "E" -> "e" [] OTHER -> "f"]
      lc == IF ch \in DOMAIN up THEN up[ch] ELSE ch
      hit == {i \in 1..base : HexChars[i] = lc}
  IN IF hit = {} THEN -1 ELSE (CHOOSE i \in hit : TRUE) - 1

\* str.split(sep) for a one-character separator.
RECURSIVE Split(_, _)
Split(s, sep) ==
  LET at == {i \in 1..Len(s) : s[i] = sep}
  IN IF at = {} THEN <<s>>
     ELSE LET i == CHOOSE j \in at : \A k \in at : j <= k
          IN <<SubSeq(s, 1, i - 1)>> \o Split(SubSeq(s, i + 1, Len(s)), sep)

\* str.strip(chars): drop the leading and trailing characters in chars.
Strip(s, chars) ==
  LET keep == {i \in 1..Len(s) : s[i] \notin chars}
  IN IF keep = {} THEN <<>>
     ELSE SubSeq(s, CHOOSE i \in keep : \A k \in keep : i <= k,
                    CHOOSE i \in keep : \A k \in keep : i >= k)

\* str.zfill(width): pad with "0" on the left, after a leading sign.
Zeros(n) == [i \in 1..n |-> "0"]
Zfill(s, width) ==
  IF Len(s) >= width THEN s
  ELSE IF Len(s) > 0 /\ s[1] \in {"+", "-"}
       THEN <<s[1]>> \o Zeros(width - Len(s)) \o Tail(s)
       ELSE Zeros(width - Len(s)) \o s

\* bytes[:size], what a bounded read hands over.
Take(s, size) == SubSeq(s, 1, IF Len(s) < size THEN Len(s) ELSE size)

\* ------------------------------------------------------- Python int

PyInt(neg, bits) == [neg |-> neg, bits |-> bits]
TopBit(bits) == CHOOSE i \in bits : \A k \in bits : i >= k

\* The hexadecimal digits of a magnitude, most significant first.
HexDigits(bits) ==
  LET n == IF bits = {} THEN 1 ELSE (TopBit(bits) \div 4) + 1
      nib(j) == (IF 4*j \in bits THEN 1 ELSE 0) + (IF 4*j + 1 \in bits THEN 2 ELSE 0)
              + (IF 4*j + 2 \in bits THEN 4 ELSE 0) + (IF 4*j + 3 \in bits THEN 8 ELSE 0)
  IN [i \in 1..n |-> HexChars[nib(n - i) + 1]]

\* hex(n): "0x.." or "-0x..".
Hex(n) ==
  (IF n.neg THEN <<"-">> ELSE <<>>) \o <<"0", "x">> \o HexDigits(n.bits)

\* int(s, 16): surrounding whitespace, a sign and a 0x prefix are accepted;
\* what is left must be one or more hexadecimal digits, else ValueError.
Unsigned(s) ==
  LET t == Strip(s, {" ", CR, LF})
  IN IF Len(t) > 0 /\ t[1] \in {"+", "-"} THEN Tail(t) ELSE t
Minus(s) ==
  LET t == Strip(s, {" ", CR, LF})
  IN Len(t) > 0 /\ t[1] = "-"
HexBody(s) ==
  LET u == Unsigned(s)
  IN IF Len(u) >= 2 /\ u[1] = "0" /\ u[2] \in {"x", "X"}
     THEN SubSeq(u, 3, Len(u)) ELSE u
IsBase16(s) ==
  LET d == HexBody(s)
  IN Len(d) > 0 /\ \A i \in 1..Len(d) : DigitValue(d[i], 16) >= 0
IntBase16(s) ==
  LET d == HexBody(s)
      n == Len(d)
      bits == {b \in 0..(4*n - 1) :
                 (DigitValue(d[n - (b \div 4)], 16) \div (2^(b % 4))) % 2 = 1}
  IN PyInt(Minus(s) /\ bits # {}, bits)

\* int(s): base 10, as a small integer, else ValueError.
RECURSIVE DecValue(_)
DecValue(d) ==
  IF Len(d) = 0 THEN 0
  ELSE 10 * DecValue(SubSeq(d, 1, Len(d) - 1)) + DigitValue(d[Len(d)], 10)
IsBase10(s) ==
  LET d == Unsigned(s)
  IN Len(d) > 0 /\ \A i \in 1..Len(d) : DigitValue(d[i], 10) >= 0
IntBase10(s) ==
  IF Minus(s) THEN -DecValue(Unsigned(s)) ELSE DecValue(Unsigned(s))

\* Bit i of a Python int, (n & 2**i) // 2**i: a negative int is read in
\* two's complement, the bits of -m being the complement of those of m-1.
BitOf(n, i) ==
  IF ~n.neg THEN (IF i \in n.bits THEN 1 ELSE 0)
  ELSE LET low == CHOOSE l \in n.bits : \A k \in n.bits : l <= k
           less == (n.bits \ {low}) \cup (0..(low - 1))
       IN IF i \in less THEN 0 ELSE 1

\* "%s" % n for a small integer.
RECURSIVE DecDigits(_)
DecDigits(n) ==
  IF n < 10 THEN <<DecChars[n + 1]>>
  ELSE DecDigits(n \div 10) \o <<DecChars[(n % 10) + 1]>>
FormatInt(n) == IF n < 0 THEN <<"-">> \o DecDigits(-n) ELSE DecDigits(n)

\* --------------------------------------------------- Python values

None == [t |-> "NoneType"]
PyBool(b) == [t |-> "bool", v |-> b]
PyStr(s) == [t |-> "str", v |-> s]
PyList(l) == [t |-> "list", v |-> l]
PyIntValue(n) == [t |-> "int", v |-> n]
\* A float as the real number it approximates, num/den.
PyFloat(num, den) == [t |-> "float", num |-> num, den |-> den]

Return(value) == [kind |-> "return", value |-> value]
Raise(exc) == [kind |-> "raise", exc |-> exc]
NoResult == [kind |-> "none"]

\* ------------------------------------------------------ wire commands

CmdIdGet == <<"i","d"," ","g","e","t">> \o <<CR>>
CmdIdSet(name) == <<"i","d"," ","s","e","t"," ">> \o name \o <<CR>>
CmdGpioRead(port) ==
  <<"g","p","i","o"," ","r","e","a","d"," ">> \o FormatInt(port) \o <<LF, CR>>
CmdGpioSet(port) ==
  <<"g","p","i","o"," ","s","e","t"," ">> \o FormatInt(port) \o <<" ", CR>>
CmdGpioClear(port) ==
  <<"g","p","i","o"," ","c","l","e","a","r"," ">> \o FormatInt(port) \o <<" ", CR>>
CmdAdcRead(port) ==
  <<"a","d","c"," ","r","e","a","d"," ">> \o FormatInt(port) \o <<CR>>
CmdRelayReadall ==
  <<"r","e","l","a","y"," ","r","e","a","d","a","l","l">> \o <<CR>>
RelayWriteall == <<"r","e","l","a","y"," ","w","r","i","t","e","a","l","l"," ">>
CmdRelayWriteall(vals) == RelayWriteall \o vals \o <<CR>>

\* --------------------------------------------------------- the codec

\* ord(x) and x.isalnum() for the characters names are drawn from.
Ord(ch) ==
  CASE ch = " " -> 32 [] ch = "!" -> 33 [] ch = "#" -> 35
    [] ch = "0" -> 48 [] ch = "1" -> 49 [] ch = "9" -> 57
    [] ch = "A" -> 65 [] ch = "Z" -> 90 [] ch = "_" -> 95
    [] ch = "a" -> 97 [] ch = "b" -> 98 [] ch = "c" -> 99
    [] ch = "y" -> 121 [] ch = "z" -> 122 [] ch = "{" -> 123
IsAlnum(ch) ==
  \/ 48 <= Ord(ch) /\ Ord(ch) <= 57
  \/ 65 <= Ord(ch) /\ Ord(ch) <= 90
  \/ 97 <= Ord(ch) /\ Ord(ch) <= 122

InRange(ch) == NameLow <= Ord(ch) /\ Ord(ch) <= NameHigh

\* set_device_name, lines 75 to 78: the name as written.
NormalizeName(name) ==
  LET ranged == SelectSeq(name, InRange)
      alnum == SelectSeq(ranged, IsAlnum)
      padded == Zfill(alnum, NameWidth)
  IN Take(padded, NameWidth)

\* set_relay, lines 186 to 191: an integer as written.
EncodeInt(n, relays) == Zfill(SubSeq(Hex(n), 3, Len(Hex(n))), relays \div 4)

\* set_relay, lines 192 to 202: a list as written.
ListBits(vals) == {i \in 0..(Len(vals) - 1) : vals[i + 1] # 0}
\* A variant that weighs element val as 2**(val + 1).
EncodeListShifted(vals, relays) ==
  LET temp_vals == PyInt(FALSE, {i + 1 : i \in ListBits(vals)})
  IN Zfill(SubSeq(Hex(temp_vals), 3, Len(Hex(temp_vals))), relays \div 4)
EncodeList(vals, relays) ==
  LET temp_vals == PyInt(FALSE, ListBits(vals))
  IN Zfill(SubSeq(Hex(temp_vals), 3, Len(Hex(temp_vals))), relays \div 4)

\* A variant of the GPIO port check that lets port 10 through.
ValidGpioPortInclusive(port) == 0 <= port /\ port <= GpioPorts

\* read_gpio line 114 and set_gpio line 129; get_adc line 148.
ValidGpioPort(port) == 0 <= port /\ port < GpioPorts
ValidAdcPort(port) == 0 <= port /\ port < AdcPorts

\* Variants of the loop's exit test: one read early, and one read late.
ExhaustedAtLimit(count, limit) == count >= limit
ExhaustedLate(count, limit) == count > limit + 1

\* clear_buffer, line 97, with retry_count already counting this read.
Exhausted(count, limit) == count > limit

\* The element of a split at a Python index, when there is one.
HasIndex(parts, i) == i + 1 <= Len(parts)
AtIndex(parts, i) == parts[i + 1]

\* get_device_name, line 64.
DecodeName(response) ==
  LET parts == Split(response, CR)
  IN IF ~HasIndex(parts, 1) THEN Raise("IndexError")
     ELSE Return(PyStr(Strip(AtIndex(parts, 1), {LF})))

\* read_gpio, lines 117 and 118.
DecodeGpio(response) ==
  LET parts == Split(response, LF)
  IN IF ~HasIndex(parts, 2) THEN Raise("IndexError")
     ELSE LET token == Strip(AtIndex(parts, 2), {CR})
          IN IF ~IsBase10(token) THEN Raise("ValueError")
             ELSE Return(PyBool(IntBase10(token) # 0))

\* get_adc, lines 151 to 155.
DecodeAdc(response, raw) ==
  LET parts == Split(response, CR)
  IN IF ~HasIndex(parts, 1) THEN Raise("IndexError")
     ELSE LET token == Strip(AtIndex(parts, 1), {LF})
          IN IF ~IsBase10(token) THEN Raise("ValueError")
             ELSE IF raw THEN Return(PyIntValue(IntBase10(token)))
             ELSE Return(PyFloat(IntBase10(token) * 33, AdcFull * 10))

\* A variant of get_relay that lists the relays from the highest bit down.
DecodeRelayReversed(response, relays) ==
  LET parts == Split(response, CR)
  IN IF ~HasIndex(parts, 1) THEN Raise("IndexError")
     ELSE LET token == Strip(AtIndex(parts, 1), {LF})
          IN IF ~IsBase16(token) THEN Raise("ValueError")
             ELSE Return(PyList([x \in 1..relays |->
                                   BitOf(IntBase16(token), relays - x)]))

\* get_relay, lines 165 to 169.
DecodeRelay(response, relays) ==
  LET parts == Split(response, CR)
  IN IF ~HasIndex(parts, 1) THEN Raise("IndexError")
     ELSE LET token == Strip(AtIndex(parts, 1), {LF})
          IN IF ~IsBase16(token) THEN Raise("ValueError")
             ELSE Return(PyList([x \in 1..relays |-> BitOf(IntBase16(token), x - 1)]))

\* -------------------------------------------------------- the device

\* The device echoes what it receives, a carriage return as "\n\r", then
\* sends its reply and the prompt.
RECURSIVE DeviceEcho(_)
DeviceEcho(cmd) ==
  IF Len(cmd) = 0 THEN <<>>
  ELSE (IF Head(cmd) = CR THEN <<LF, CR>> ELSE <<Head(cmd)>>) \o DeviceEcho(Tail(cmd))
DeviceReply(cmd, token) == DeviceEcho(cmd) \o token \o <<LF, CR, ">">>
DeviceAck(cmd) == DeviceEcho(cmd) \o <<">">>

\* What the device may have sent when a get command reads: nothing, a
\* fragment of the echo, the echo alone, or the echo and a reply.
GetReplies(cmd, tokens) ==
  {<<>>, Take(cmd, 3), DeviceEcho(cmd)} \cup {DeviceReply(cmd, t) : t \in tokens}
SetReplies(cmd) == {<<>>, DeviceAck(cmd)}
\* What clear_buffer may read: nothing, or bytes left on the line.
StrayBytes == {<<>>, <<">">>}

NameTokens == {<<"0","0","0","0","0","a","b","c">>}
GpioTokens == {<<"0">>, <<"1">>, <<"2">>, <<"-","1">>, <<"o","n">>, <<>>}
AdcTokens == {<<"0">>, <<"5","1","2">>, <<"1","0","2","3">>, <<"1","0","2","4">>,
              <<"-","1">>, <<"x">>}
RelayTokens(relays, sent) ==
  (IF sent.sent THEN {sent.wire} ELSE {})
    \cup {Zeros(relays \div 4), [i \in 1..(relays \div 4) |-> "f"],
          <<"1">> \o [i \in 1..(relays \div 4) |-> "f"], <<"z","z">>}

\* -------------------------------------------------------- the inputs

RelayCounts == {4, 8, 16, 32}
Ports == (0 - PortSlack)..(GpioPorts - 1 + PortSlack)
RetryLimits == 0..MaxRetryLimit

NameChars == {"a", "z", "0", "!"}
RECURSIVE Texts(_, _)
Texts(chars, len) ==
  IF len = 0 THEN {<<>>}
  ELSE Texts(chars, len - 1)
         \cup {<<ch>> \o t : ch \in chars, t \in {u \in Texts(chars, len - 1) : Len(u) = len - 1}}
Names ==
  Texts(NameChars, MaxNameLen)
    \cup {<<"a","b","!","c","#","1">>, <<"a","b","c","y","z","A","Z","0","9","1">>}

\* The lists set_relay is given: of length 0, relays and relays + 1, with
\* every content up to ExhaustLen elements; beyond that, of length relays
\* all zero, one element set, all but one set or all set, and of length
\* relays + 1 one element set or all set; and one with an element 2.
OnSets(len, relays) ==
  IF len <= ExhaustLen THEN SUBSET (1..len)
  ELSE {1..len} \cup {{i} : i \in 1..len}
         \cup (IF len = relays THEN {{}} \cup {(1..len) \ {i} : i \in 1..len} ELSE {})
ListOf(len, on) == [i \in 1..len |-> IF i \in on THEN 1 ELSE 0]
RelayLists(relays) ==
  UNION {{ListOf(len, on) : on \in OnSets(len, relays)} : len \in {0, relays, relays + 1}}
    \cup {[i \in 1..relays |-> IF i = 1 THEN 2 ELSE 0]}
\* The integers: 0, 0x89, 2^relays - 1, 2^relays, 2^relays + 1, -1, -5.
RelayInts(relays) ==
  {PyInt(FALSE, {}), PyInt(FALSE, {0, 3, 7}), PyInt(FALSE, 0..(relays - 1)),
   PyInt(FALSE, {relays}), PyInt(FALSE, {0, relays}),
   PyInt(TRUE, {0}), PyInt(TRUE, {0, 2})}
IntVal(n) == [type |-> "int", n |-> n]
ListVal(l) == [type |-> "list", l |-> l]
OtherVals == {[type |-> "float"], [type |-> "str"], [type |-> "tuple"]}
RelayVals(relays) ==
  {IntVal(n) : n \in RelayInts(relays)} \cup {ListVal(l) : l \in RelayLists(relays)}
    \cup OtherVals
\* A few of them, for the runs that are about the other operations.
FewRelayVals(relays) ==
  {IntVal(PyInt(FALSE, {0, 3, 7})), ListVal(ListOf(relays, {1, relays}))}
    \cup OtherVals

\* ---------------------------------------------------------- the state

VARIABLES
  number_of_relays,  \* self.number_of_relays
  connected,         \* self.connected
  device,            \* self.device: "str" (the class's ''), "open" or "closed"
  pc,                \* where the caller is: "new", "idle", "written", "clearing"
  op,                \* the operation running, or the last one run
  args,              \* its arguments
  retry_count,       \* clear_buffer's retry_count
  io,                \* the transport calls of that operation, in order
  result,            \* what that operation returned or raised
  last_writeall,     \* the last relay writeall known to have reached the
                     \* device over the open port
  calls,             \* for the handle shared by several callers: each
                     \* caller's operation, where it is and what it read
  pending            \* and the bytes received on the port and not yet read

vars == <<number_of_relays, connected, device, pc, op, args, retry_count, io,
          result, last_writeall, calls, pending>>

WriteEvent(data, err) == [call |-> "write", data |-> data, size |-> Len(data), err |-> err]
ReadEvent(data, size, err) == [call |-> "read", data |-> data, size |-> size, err |-> err]

NoArgs == [none |-> TRUE]
NotSent == [sent |-> FALSE]

\* The callers that share one handle, and a caller that has called nothing.
Callers == {"a", "b"}
NoCall ==
  [pc |-> "idle", op |-> "none", args |-> NoArgs, cmd |-> <<>>, read |-> FALSE,
   data |-> <<>>, overlapped |-> FALSE, result |-> NoResult]

\* Lines 28 to 31: the class's defaults, before the constructor runs.
Init ==
  /\ number_of_relays = 0
  /\ connected = FALSE
  /\ device = "str"
  /\ pc = "new"
  /\ op = "none"
  /\ args = NoArgs
  /\ retry_count = 0
  /\ io = <<>>
  /\ result = NoResult
  /\ last_writeall = NotSent
  /\ calls = [c \in Callers |-> NoCall]
  /\ pending = <<>>

\* ------------------------------------------------------ the transport

\* self.device.write(..): a str has no write, a closed port refuses, an
\* open port sends or fails.
WriteOutcomes ==
  CASE device = "str" -> {"AttributeError"}
    [] device = "closed" -> {"PortNotOpenError"}
    [] OTHER -> {"ok", "SerialException"}

\* self.device.read(size) on the open port: an I/O error, or up to size
\* of the bytes the device sent (none when the timeout elapses).
ReadOutcomes(size, sent) ==
  {ReadEvent(<<>>, size, TRUE)} \cup {ReadEvent(Take(d, size), size, FALSE) : d \in sent}

\* An operation that ends before it reaches the transport.
Ends(name, a, res) ==
  /\ pc = "idle"
  /\ pc' = "idle"
  /\ op' = name
  /\ args' = a
  /\ io' = <<>>
  /\ result' = res
  /\ UNCHANGED <<calls, pending, number_of_relays, connected, device, retry_count, last_writeall>>

\* An operation's write of its command.
Writes(name, a, cmd, received) ==
  /\ pc = "idle"
  /\ op' = name
  /\ args' = a
  /\ \E w \in WriteOutcomes :
       /\ pc' = IF w = "ok" THEN "written" ELSE "idle"
       /\ result' = IF w = "ok" THEN NoResult ELSE Raise(w)
       /\ io' = CASE w = "ok" -> <<WriteEvent(cmd, FALSE)>>
                  [] w = "SerialException" -> <<WriteEvent(cmd, TRUE)>>
                  [] OTHER -> <<>>
       /\ last_writeall' = CASE w = "ok" -> received
                             [] w = "SerialException" /\ received # last_writeall -> NotSent
                             [] OTHER -> last_writeall
  /\ UNCHANGED <<calls, pending, number_of_relays, connected, device, retry_count>>

\* What an operation makes of the bytes it read: the get operations decode
\* them, the set operations drop them.
Decode(name, response) ==
  CASE name = "get_device_name" -> DecodeName(response)
    [] name = "read_gpio" -> DecodeGpio(response)
    [] name = "get_adc" -> DecodeAdc(response, args.raw)
    [] name = "get_relay" -> DecodeRelay(response, number_of_relays)
    [] OTHER -> Return(None)

\* A variant of the read that is made once more when a read hands over
\* nothing.
ReadsAgain(name, size, sent) ==
  /\ pc = "written"
  /\ op = name
  /\ \E r \in ReadOutcomes(size, sent) :
       /\ io' = Append(io, r)
       /\ IF ~r.err /\ Len(r.data) = 0 /\ Len(io) < 2
          THEN UNCHANGED <<pc, result>>
          ELSE /\ pc' = "idle"
               /\ result' = IF r.err THEN Raise("SerialException")
                             ELSE Decode(name, r.data)
  /\ UNCHANGED <<calls, pending, number_of_relays, connected, device, op, args, retry_count,
                 last_writeall>>

\* An operation's read of the reply, and what it makes of it.
Reads(name, size, sent) ==
  /\ pc = "written"
  /\ op = name
  /\ pc' = "idle"
  /\ \E r \in ReadOutcomes(size, sent) :
       /\ io' = Append(io, r)
       /\ result' = IF r.err THEN Raise("SerialException") ELSE Decode(name, r.data)
  /\ UNCHANGED <<calls, pending, number_of_relays, connected, device, op, args, retry_count,
                 last_writeall>>

\* ------------------------------------------------------ the operations

\* A variant of the constructor that lets the failure to open escape.
InitRaises ==
  /\ pc = "new"
  /\ pc' = "idle"
  /\ op' = "__init__"
  /\ \E relays \in RelayCounts :
       /\ number_of_relays' = relays
       /\ args' = [number_of_relays |-> relays]
  /\ \/ device' = "open" /\ connected' = TRUE /\ result' = Return(None)
     \/ UNCHANGED <<device, connected>> /\ result' = Raise("SerialException")
  /\ UNCHANGED <<calls, pending, retry_count, io, last_writeall>>

\* Lines 33 to 48.
__init__ ==
  /\ pc = "new"
  /\ pc' = "idle"
  /\ op' = "__init__"
  /\ \E relays \in RelayCounts :
       /\ number_of_relays' = relays
       /\ args' = [number_of_relays |-> relays]
  /\ \/ device' = "open" /\ connected' = TRUE
     \/ UNCHANGED <<device, connected>>
  /\ result' = Return(None)
  /\ UNCHANGED <<calls, pending, retry_count, io, last_writeall>>

\* Lines 50 to 55.
close_port ==
  /\ pc = "idle"
  /\ op' = "close_port"
  /\ args' = NoArgs
  /\ io' = <<>>
  /\ IF device = "str"
     THEN result' = Raise("AttributeError") /\ UNCHANGED device
     ELSE result' = Return(None) /\ device' = "closed"
  /\ last_writeall' = NotSent
  /\ UNCHANGED <<calls, pending, number_of_relays, connected, pc, retry_count>>

\* Lines 57 to 65.
get_device_name ==
  \/ Writes("get_device_name", NoArgs, CmdIdGet, last_writeall)
  \/ Reads("get_device_name", ReadName, GetReplies(CmdIdGet, NameTokens))

\* Lines 67 to 80.
set_device_name ==
  \/ \E name \in Names :
       Writes("set_device_name", [name |-> name], CmdIdSet(NormalizeName(name)),
              last_writeall)
  \/ Reads("set_device_name", ReadName, SetReplies(io[1].data))

\* A variant of the loop's turn that looks at the count before the bytes.
ClearTurnCountFirst(data, count, limit) ==
  IF Exhausted(count, limit) THEN "dirty"
  ELSE IF Len(data) = 0 THEN "clean" ELSE "again"

\* Lines 94 to 99: what one turn of the loop makes of the bytes it read,
\* count being retry_count after the increment of line 93.
ClearTurn(data, count, limit) ==
  IF Len(data) = 0 THEN "clean"
  ELSE IF Exhausted(count, limit) THEN "dirty" ELSE "again"

\* Lines 82 to 100: the call, then one step for each turn of the loop.
ClearRead ==
  CASE device = "str" -> {"AttributeError"}
    [] device = "closed" -> {"PortNotOpenError"}
    [] OTHER -> {"ok"}
clear_buffer ==
  \/ /\ pc = "idle"
     /\ pc' = "clearing"
     /\ op' = "clear_buffer"
     /\ \E retry_limit \in RetryLimits : args' = [retry_limit |-> retry_limit]
     /\ retry_count' = 0
     /\ io' = <<>>
     /\ result' = NoResult
     /\ UNCHANGED <<calls, pending, number_of_relays, connected, device, last_writeall>>
  \/ /\ pc = "clearing"
     /\ \E w \in ClearRead :
          IF w # "ok"
          THEN /\ result' = Raise(w)
               /\ pc' = "idle"
               /\ retry_count' = 0
               /\ UNCHANGED io
          ELSE \E r \in ReadOutcomes(ReadClear, StrayBytes) :
                 /\ io' = Append(io, r)
                 /\ IF r.err
                    THEN result' = Raise("SerialException") /\ pc' = "idle"
                         /\ retry_count' = 0
                    ELSE LET turn == ClearTurn(r.data, retry_count + 1,
                                               args.retry_limit)
                         IN IF turn = "again"
                            THEN UNCHANGED <<result, pc>>
                                 /\ retry_count' = retry_count + 1
                            ELSE /\ result' = Return(PyBool(turn = "clean"))
                                 /\ pc' = "idle"
                                 /\ retry_count' = 0
     /\ UNCHANGED <<calls, pending, number_of_relays, connected, device, op, args, last_writeall>>

\* Lines 102 to 118.
read_gpio ==
  \/ \E port \in Ports :
       IF ValidGpioPort(port)
       THEN Writes("read_gpio", [port |-> port], CmdGpioRead(port), last_writeall)
       ELSE Ends("read_gpio", [port |-> port], Raise("AssertionError"))
  \/ Reads("read_gpio", ReadGpio, GetReplies(io[1].data, GpioTokens))

\* Lines 120 to 136.
set_gpio ==
  \/ \E port \in Ports, status \in BOOLEAN :
       IF ValidGpioPort(port)
       THEN Writes("set_gpio", [port |-> port, status |-> status],
                   IF status THEN CmdGpioSet(port) ELSE CmdGpioClear(port),
                   last_writeall)
       ELSE Ends("set_gpio", [port |-> port, status |-> status],
                 Raise("AssertionError"))
  \/ Reads("set_gpio", ReadSetGpio, SetReplies(io[1].data))

\* Lines 138 to 155.
get_adc ==
  \/ \E port \in Ports, raw \in BOOLEAN :
       IF ValidAdcPort(port)
       THEN Writes("get_adc", [port |-> port, raw |-> raw], CmdAdcRead(port),
                   last_writeall)
       ELSE Ends("get_adc", [port |-> port, raw |-> raw], Raise("AssertionError"))
  \/ Reads("get_adc", ReadAdc, GetReplies(io[1].data, AdcTokens))

\* Lines 157 to 169.
get_relay ==
  \/ Writes("get_relay", NoArgs, CmdRelayReadall, last_writeall)
  \/ Reads("get_relay", ReadRelay,
           GetReplies(CmdRelayReadall, RelayTokens(number_of_relays, last_writeall)))

\* A variant of set_relay without the assertion of line 185.
SetRelayCallNoStrCheck(relay_vals) ==
  LET a == [relay_vals |-> relay_vals]
      Wire(vals) == Writes("set_relay", a, CmdRelayWriteall(vals),
                           [sent |-> TRUE, relay_vals |-> relay_vals, wire |-> vals])
  IN CASE relay_vals.type = "float" -> Ends("set_relay", a, Raise("AssertionError"))
       [] relay_vals.type = "int" -> Wire(EncodeInt(relay_vals.n, number_of_relays))
       [] relay_vals.type = "list" -> Wire(EncodeList(relay_vals.l, number_of_relays))
       [] OTHER -> Ends("set_relay", a, Return(PyBool(FALSE)))

\* Lines 171 to 207.
SetRelayCall(relay_vals) ==
  LET a == [relay_vals |-> relay_vals]
      Wire(vals) == Writes("set_relay", a, CmdRelayWriteall(vals),
                           [sent |-> TRUE, relay_vals |-> relay_vals, wire |-> vals])
  IN CASE relay_vals.type = "float" -> Ends("set_relay", a, Raise("AssertionError"))
       [] relay_vals.type = "str" -> Ends("set_relay", a, Raise("AssertionError"))
       [] relay_vals.type = "int" -> Wire(EncodeInt(relay_vals.n, number_of_relays))
       [] relay_vals.type = "list" -> Wire(EncodeList(relay_vals.l, number_of_relays))
       [] OTHER -> Ends("set_relay", a, Return(PyBool(FALSE)))
SetRelay(Vals) ==
  \/ \E relay_vals \in Vals : SetRelayCall(relay_vals)
  \/ Reads("set_relay", ReadRelay, SetReplies(io[1].data))
set_relay == SetRelay(FewRelayVals(number_of_relays))
set_relay_codec == SetRelay(RelayVals(number_of_relays))

Next ==
  \/ __init__
  \/ close_port
  \/ get_device_name
  \/ set_device_name
  \/ clear_buffer
  \/ read_gpio
  \/ set_gpio
  \/ get_adc
  \/ get_relay
  \/ set_relay

Spec == Init /\ [][Next]_vars

\* The relay operations alone, over all the relay values.
NextRelay ==
  \/ __init__
  \/ close_port
  \/ get_relay
  \/ set_relay_codec

SpecRelay == Init /\ [][NextRelay]_vars

\* ------------------------------------------- the handle and its callers

\* The command operations again, each as the write and the read it is made
\* of, called by the callers that share a connected handle. The port does
\* not fail here and the device answers every command in full, the answer
\* being in the port's input buffer before any read that follows the write:
\* read(size) hands over the first size bytes of the buffer and leaves the
\* rest. The methods take no lock, so nothing in a call's write or read
\* looks at what the other caller is doing.

LinePorts == {0, GpioPorts}
LineNames == {<<"a">>}
LineRelayCounts == {32}

\* The commands' answers: the echo and a reply, or the echo and the prompt.
LineAnswers(name, cmd) ==
  CASE name = "get_device_name" -> {DeviceReply(cmd, t) : t \in NameTokens}
    [] name = "read_gpio" -> {DeviceReply(cmd, t) : t \in {<<"0">>, <<"1">>}}
    [] name = "get_adc" ->
         {DeviceReply(cmd, t) : t \in {<<"5","1","2">>, <<"1","0","2","3">>}}
    [] name = "get_relay" ->
         {DeviceReply(cmd, t) :
            t \in {Zeros(number_of_relays \div 4),
                   [i \in 1..(number_of_relays \div 4) |-> "f"]}}
    [] OTHER -> {DeviceAck(cmd)}

\* A variant in which every operation reads a fifth of the smaller size.
ReadSizeShort(name) == ReadSetGpio \div 5

\* A variant of read that hands the bytes over and keeps them as well.
RestAll(buffer, size) == buffer

\* The size each operation passes to read: lines 63, 80, 116, 136, 150,
\* 164 and 207.
ReadSize(name) ==
  CASE name = "get_device_name" -> ReadName
    [] name = "set_device_name" -> ReadName
    [] name = "read_gpio" -> ReadGpio
    [] name = "set_gpio" -> ReadSetGpio
    [] name = "get_adc" -> ReadAdc
    [] OTHER -> ReadRelay

\* What read(size) leaves in the input buffer.
Rest(buffer, size) == SubSeq(buffer, size + 1, Len(buffer))

\* What an operation makes of the bytes it read.
LineDecode(call, response) ==
  CASE call.op = "get_device_name" -> DecodeName(response)
    [] call.op = "read_gpio" -> DecodeGpio(response)
    [] call.op = "get_adc" -> DecodeAdc(response, call.args.raw)
    [] call.op = "get_relay" -> DecodeRelay(response, number_of_relays)
    [] OTHER -> Return(None)

InFlight(c) == calls[c].pc = "written"

\* A call that ends before it reaches the port.
LineEnds(c, name, a, res) ==
  /\ ~InFlight(c)
  /\ calls' = [calls EXCEPT ![c] = [NoCall EXCEPT !.op = name, !.args = a,
                                                  !.result = res]]
  /\ UNCHANGED pending

\* A call's write of its command, which the device answers. Any call
\* between its write and its read at that moment overlaps this one.
LineWrites(c, name, a, cmd) ==
  /\ ~InFlight(c)
  /\ \E answer \in LineAnswers(name, cmd) :
       pending' = pending \o answer
  /\ LET others == \E d \in Callers \ {c} : InFlight(d)
     IN calls' = [d \in Callers |->
                    IF d = c
                    THEN [NoCall EXCEPT !.pc = "written", !.op = name, !.args = a,
                                        !.cmd = cmd, !.overlapped = others]
                    ELSE IF InFlight(d) THEN [calls[d] EXCEPT !.overlapped = TRUE]
                    ELSE calls[d]]

\* A call's read of the input buffer, and what it makes of the bytes.
LineReads(c, name) ==
  /\ InFlight(c)
  /\ calls[c].op = name
  /\ LET response == Take(pending, ReadSize(name))
     IN calls' = [calls EXCEPT ![c] = [@ EXCEPT !.pc = "idle", !.read = TRUE,
                                                !.data = response,
                                                !.result = LineDecode(calls[c], response)]]
  /\ pending' = Rest(pending, ReadSize(name))

\* Lines 57 to 65.
get_device_name_by(c) ==
  \/ LineWrites(c, "get_device_name", NoArgs, CmdIdGet)
  \/ LineReads(c, "get_device_name")

\* Lines 67 to 80.
set_device_name_by(c) ==
  \/ \E name \in LineNames :
       LineWrites(c, "set_device_name", [name |-> name], CmdIdSet(NormalizeName(name)))
  \/ LineReads(c, "set_device_name")

\* Lines 102 to 118.
read_gpio_by(c) ==
  \/ \E port \in LinePorts :
       IF ValidGpioPort(port)
       THEN LineWrites(c, "read_gpio", [port |-> port], CmdGpioRead(port))
       ELSE LineEnds(c, "read_gpio", [port |-> port], Raise("AssertionError"))
  \/ LineReads(c, "read_gpio")

\* Lines 120 to 136.
set_gpio_by(c) ==
  \/ \E port \in LinePorts, status \in BOOLEAN :
       IF ValidGpioPort(port)
       THEN LineWrites(c, "set_gpio", [port |-> port, status |-> status],
                       IF status THEN CmdGpioSet(port) ELSE CmdGpioClear(port))
       ELSE LineEnds(c, "set_gpio", [port |-> port, status |-> status],
                     Raise("AssertionError"))
  \/ LineReads(c, "set_gpio")

\* Lines 138 to 155.
get_adc_by(c) ==
  \/ \E port \in LinePorts, raw \in BOOLEAN :
       IF ValidAdcPort(port)
       THEN LineWrites(c, "get_adc", [port |-> port, raw |-> raw], CmdAdcRead(port))
       ELSE LineEnds(c, "get_adc", [port |-> port, raw |-> raw],
                     Raise("AssertionError"))
  \/ LineReads(c, "get_adc")

\* Lines 157 to 169.
get_relay_by(c) ==
  \/ LineWrites(c, "get_relay", NoArgs, CmdRelayReadall)
  \/ LineReads(c, "get_relay")

\* Lines 171 to 207.
set_relay_by(c) ==
  \/ \E relay_vals \in FewRelayVals(number_of_relays) :
       LET a == [relay_vals |-> relay_vals]
       IN CASE relay_vals.type \in {"float", "str"} ->
                 LineEnds(c, "set_relay", a, Raise("AssertionError"))
            [] relay_vals.type = "int" ->
                 LineWrites(c, "set_relay", a,
                            CmdRelayWriteall(EncodeInt(relay_vals.n, number_of_relays)))
            [] relay_vals.type = "list" ->
                 LineWrites(c, "set_relay", a,
                            CmdRelayWriteall(EncodeList(relay_vals.l, number_of_relays)))
            [] OTHER -> LineEnds(c, "set_relay", a, Return(PyBool(FALSE)))
  \/ LineReads(c, "set_relay")

\* The handle after a constructor that opened the port, no caller having
\* called anything yet.
InitLine ==
  /\ number_of_relays \in LineRelayCounts
  /\ connected = TRUE
  /\ device = "open"
  /\ pc = "idle"
  /\ op = "__init__"
  /\ args = [number_of_relays |-> number_of_relays]
  /\ retry_count = 0
  /\ io = <<>>
  /\ result = Return(None)
  /\ last_writeall = NotSent
  /\ calls = [c \in Callers |-> NoCall]
  /\ pending = <<>>

Command(c) ==
  /\ \/ get_device_name_by(c)
     \/ set_device_name_by(c)
     \/ read_gpio_by(c)
     \/ set_gpio_by(c)
     \/ get_adc_by(c)
     \/ get_relay_by(c)
     \/ set_relay_by(c)
  /\ UNCHANGED <<number_of_relays, connected, device, pc, op, args, retry_count,
                 io, result, last_writeall>>

\* The callers call one after the other: a call begins only when no call
\* is between its write and its read.
OneAtATime(c) == \A d \in Callers \ {c} : ~InFlight(d)
NextInTurn == \E c \in Callers : OneAtATime(c) /\ Command(c)
SpecInTurn == InitLine /\ [][NextInTurn]_vars

\* The callers call when they like, as two threads that share the handle
\* do.
NextShared == \E c \in Callers : Command(c)
SpecShared == InitLine /\ [][NextShared]_vars

\* ---------------------------------------------------------- the claims

\* The error kinds of the specification, as the exceptions the code raises.
Raised(excs) == result.kind = "raise" /\ result.exc \in excs
NotConnected == Raised({"AttributeError", "PortNotOpenError"})
InvalidPort == Raised({"AssertionError"})
InvalidArgument == Raised({"AssertionError"})
TransportError == Raised({"SerialException"})
MalformedResponse == Raised({"ValueError", "IndexError"})
ReturnedBool(b) ==
  result.kind = "return" /\ result.value.t = "bool" /\ result.value.v = b

CommandOps == {"get_device_name", "set_device_name", "read_gpio", "set_gpio",
               "get_adc", "get_relay", "set_relay"}
Operations == CommandOps \cup {"clear_buffer"}
Done(name) == pc = "idle" /\ op = name

\* The reads of the running (or last) operation, and whether each handed
\* over bytes.
NonEmpty(e) == e.call = "read" /\ ~e.err /\ Len(e.data) > 0
Empty(e) == e.call = "read" /\ ~e.err /\ Len(e.data) = 0

\* C1: every operation other than open and close, called on a handle whose
\* open failed or that was closed, reports NotConnected and does no
\* transport write and no transport read.
C1_NotConnected ==
  (pc = "idle" /\ op \in Operations /\ device \in {"str", "closed"})
    => (NotConnected /\ io = <<>>)

\* C2: clear_buffer returns success when its first read hands over zero
\* bytes, and when every read hands over bytes it returns failure after
\* exactly retry_limit + 1 reads: while it runs it has made at most
\* retry_limit of them.
C2_ClearBuffer ==
  /\ (Done("clear_buffer") /\ Len(io) >= 1 /\ Empty(io[1])) => ReturnedBool(TRUE)
  /\ (Done("clear_buffer") /\ Len(io) >= 1 /\ \A i \in 1..Len(io) : NonEmpty(io[i]))
       => (ReturnedBool(FALSE) /\ Len(io) = args.retry_limit + 1)
  /\ (pc = "clearing" /\ \A i \in 1..Len(io) : NonEmpty(io[i]))
       => Len(io) <= args.retry_limit
C2_Witness ==
  /\ Done("clear_buffer")
  /\ args.retry_limit = 2
  /\ Len(io) = 3
  /\ \A i \in 1..3 : NonEmpty(io[i])
  /\ ReturnedBool(FALSE)

\* C3, as stated: once retry_limit non-empty reads in a row have been made
\* (retry_limit >= 1), clear_buffer makes no further read.
C3_StopsAtLimit ==
  (op = "clear_buffer" /\ args.retry_limit >= 1 /\ Len(io) >= args.retry_limit
     /\ \A i \in 1..args.retry_limit : NonEmpty(io[i]))
    => Len(io) = args.retry_limit
\* C3, amended: on an open port clear_buffer goes on reading after
\* retry_limit non-empty reads, stops with failure as soon as
\* retry_limit + 1 non-empty reads in a row have been made, and never makes
\* a read number retry_limit + 2.
C3_StopsPastLimit ==
  op = "clear_buffer" =>
    /\ Len(io) <= args.retry_limit + 1
    /\ (Len(io) = args.retry_limit + 1 /\ \A i \in 1..Len(io) : NonEmpty(io[i]))
         => (pc = "idle" /\ ReturnedBool(FALSE))
    /\ (device = "open" /\ Len(io) <= args.retry_limit
          /\ \A i \in 1..Len(io) : NonEmpty(io[i]))
         => pc = "clearing"
C3_Witness ==
  /\ Done("clear_buffer")
  /\ args.retry_limit = 1
  /\ Len(io) = 2
  /\ NonEmpty(io[1]) /\ NonEmpty(io[2])
  /\ ReturnedBool(FALSE)

\* The payload of the relay writeall command the running (or last) set_relay
\* wrote, when it wrote one.
WroteRelays ==
  op = "set_relay" /\ Len(io) >= 1 /\ io[1].call = "write"
Payload == SubSeq(io[1].data, Len(RelayWriteall) + 1, Len(io[1].data) - 1)

\* A list of booleans (True and False are the integers 1 and 0).
IsBooleans(l) == \A i \in 1..Len(l) : l[i] \in {0, 1}

\* C4: when set_relay(seq), seq of relay_count booleans, wrote relay
\* writeall H and the device answers relay readall with H, get_relay
\* returns seq.
C4_Answered ==
  /\ Done("get_relay")
  /\ Len(io) = 2
  /\ ~io[2].err
  /\ last_writeall.sent
  /\ last_writeall.relay_vals.type = "list"
  /\ Len(last_writeall.relay_vals.l) = number_of_relays
  /\ IsBooleans(last_writeall.relay_vals.l)
  /\ io[2].data = DeviceReply(io[1].data, last_writeall.wire)
C4_RoundTrip ==
  C4_Answered =>
    /\ result.kind = "return"
    /\ result.value.t = "list"
    /\ result.value.v = last_writeall.relay_vals.l
C4_Witness ==
  /\ C4_Answered
  /\ number_of_relays = 32
  /\ last_writeall.relay_vals.l[32] = 1
  /\ last_writeall.relay_vals.l[31] = 0
  /\ result.kind = "return"
  /\ result.value.v[32] = 1

\* C5: the value set_relay writes holds only the low relay_count bits of
\* its input: it is below 2^relay_count.
C5_Truncated ==
  (WroteRelays /\ IsBase16(Payload))
    => \A b \in IntBase16(Payload).bits : b < number_of_relays

\* C6: the payload set_relay writes is made of lower-case hexadecimal
\* digits only, exactly relay_count / 4 of them.
C6_HexPayload ==
  WroteRelays =>
    /\ Len(Payload) = number_of_relays \div 4
    /\ \A i \in 1..Len(Payload) : \E d \in 1..16 : Payload[i] = HexChars[d]

\* C7: set_relay given a float or a text fails with InvalidArgument before
\* any transport write or read, and given any type it does not accept it
\* does no transport I/O.
C7_Rejected ==
  op = "set_relay" =>
    /\ args.relay_vals.type \in {"float", "str"}
         => (pc = "idle" /\ InvalidArgument /\ io = <<>>)
    /\ args.relay_vals.type \notin {"int", "list"} => (pc = "idle" /\ io = <<>>)
C7_Witness ==
  /\ Done("set_relay")
  /\ device = "open"
  /\ args.relay_vals.type = "str"
  /\ InvalidArgument
  /\ io = <<>>

\* C8: read_gpio and set_gpio fail with InvalidPort for a port outside
\* 0..9, and get_adc for a port outside 0..4, before any transport write;
\* for a port inside, the command written carries that port number.
PortDigit == <<DecChars[args.port + 1]>>
C8_Command ==
  CASE op = "read_gpio" ->
         <<"g","p","i","o"," ","r","e","a","d"," ">> \o PortDigit \o <<LF, CR>>
    [] op = "set_gpio" /\ args.status ->
         <<"g","p","i","o"," ","s","e","t"," ">> \o PortDigit \o <<" ", CR>>
    [] op = "set_gpio" /\ ~args.status ->
         <<"g","p","i","o"," ","c","l","e","a","r"," ">> \o PortDigit \o <<" ", CR>>
    [] op = "get_adc" ->
         <<"a","d","c"," ","r","e","a","d"," ">> \o PortDigit \o <<CR>>
C8_Ports ==
  op \in {"read_gpio", "set_gpio", "get_adc"} =>
    IF args.port \in 0..(IF op = "get_adc" THEN 4 ELSE 9)
    THEN /\ device = "open" => Len(io) >= 1
         /\ Len(io) >= 1 => (io[1].call = "write" /\ io[1].data = C8_Command)
    ELSE pc = "idle" /\ InvalidPort /\ io = <<>>
C8_Witness ==
  /\ Done("get_adc")
  /\ device = "open"
  /\ args.port = 5
  /\ InvalidPort
  /\ io = <<>>

\* C9: a command operation whose read hands over zero bytes, or whose write
\* or read fails with an I/O error, reports a failure to its caller.
C9_Reported ==
  (pc = "idle" /\ op \in CommandOps /\ Len(io) >= 1
     /\ (io[Len(io)].err \/ Empty(io[Len(io)])))
    => result.kind = "raise"

\* C10: read_gpio returns false for the payload token 0, true for 1, and
\* fails with MalformedResponse for every other token.
C10_Token(t) ==
  Done("read_gpio") /\ Len(io) = 2 /\ ~io[2].err
    /\ io[2].data = DeviceReply(io[1].data, t)
C10_Gpio ==
  \A t \in GpioTokens :
    C10_Token(t) =>
      CASE t = <<"0">> -> ReturnedBool(FALSE)
        [] t = <<"1">> -> ReturnedBool(TRUE)
        [] OTHER -> MalformedResponse

\* C11: get_adc with raw=True returns the payload token as an integer only
\* when it is a base 10 integer in 0..1023, and fails with
\* MalformedResponse for every other token.
C11_Token(t) ==
  Done("get_adc") /\ args.raw /\ Len(io) = 2 /\ ~io[2].err
    /\ io[2].data = DeviceReply(io[1].data, t)
C11_AdcRange ==
  \A t \in AdcTokens :
    C11_Token(t) =>
      IF IsBase10(t) /\ 0 <= IntBase10(t) /\ IntBase10(t) <= 1023
      THEN result.kind = "return" /\ result.value.t = "int"
           /\ result.value.v = IntBase10(t)
      ELSE MalformedResponse

\* C12: the name set_device_name writes is the reference normalisation of
\* its input: the alphanumeric characters only, padded with zeros on the
\* left to 8 and cut to the first 8.
ReferenceName(name) == Take(Zfill(SelectSeq(name, IsAlnum), 8), 8)
C12_Reference ==
  (op = "set_device_name" /\ Len(io) >= 1)
    => io[1].data = <<"i","d"," ","s","e","t"," ">> \o ReferenceName(args.name) \o <<CR>>

\* C13: get_relay returns relay_count elements, element i being bit i of
\* the base 16 payload token, whatever bits the token has at positions
\* relay_count and above.
C13_Nibble(ch) == (CHOOSE d \in 1..16 : HexChars[d] = ch) - 1
C13_Bit(t, i) ==
  IF i \div 4 >= Len(t) THEN 0
  ELSE (C13_Nibble(t[Len(t) - (i \div 4)]) \div (2^(i % 4))) % 2
C13_PlainHex(t) ==
  Len(t) > 0 /\ \A k \in 1..Len(t) : \E d \in 1..16 : HexChars[d] = t[k]
C13_Token(t) ==
  Done("get_relay") /\ Len(io) = 2 /\ ~io[2].err
    /\ io[2].data = DeviceReply(io[1].data, t)
C13_Bits ==
  \A t \in RelayTokens(number_of_relays, last_writeall) :
    (C13_Token(t) /\ C13_PlainHex(t)) =>
      /\ result.kind = "return"
      /\ result.value.t = "list"
      /\ Len(result.value.v) = number_of_relays
      /\ \A i \in 0..(number_of_relays - 1) : result.value.v[i + 1] = C13_Bit(t, i)
C13_Witness ==
  /\ number_of_relays = 8
  /\ C13_Token(<<"1", "f", "f">>)
  /\ result.kind = "return"
  /\ result.value.v = <<1, 1, 1, 1, 1, 1, 1, 1>>

\* C14: opening never raises when the transport cannot be acquired, the
\* handle then has connected = false; when it is acquired the handle has
\* connected = true.
C14_Open ==
  op = "__init__" =>
    /\ result.kind = "return"
    /\ connected <=> device = "open"
C14_Witness ==
  /\ Done("__init__")
  /\ device = "str"
  /\ ~connected
  /\ result.kind = "return"

\* C15, as stated: every command operation that is called on an open
\* port with arguments that pass its validation makes exactly one write
\* and then exactly one read.
C15_Validated ==
  /\ ~Raised({"AssertionError"})
  /\ op = "set_relay" => args.relay_vals.type \in {"int", "list"}
C15_Call == pc = "idle" /\ op \in CommandOps /\ device = "open" /\ C15_Validated
C15_WriteThenRead ==
  C15_Call => (Len(io) = 2 /\ io[1].call = "write" /\ io[2].call = "read")
\* C15, amended: such an operation makes exactly one write, and exactly
\* one read after it unless the write itself fails with an I/O error, in
\* which case it makes no read and reports TransportError; whatever the
\* read hands over, no command operation ever makes a second write or a
\* second read.
C15_WriteThenReadUnlessWriteFails ==
  op \in CommandOps =>
    /\ Len(io) <= 2
    /\ Len(io) >= 1 => io[1].call = "write"
    /\ Len(io) = 2 => (io[2].call = "read" /\ ~io[1].err /\ pc = "idle")
    /\ pc = "written" => (Len(io) = 1 /\ ~io[1].err)
    /\ C15_Call =>
         /\ Len(io) >= 1
         /\ io[1].err => (Len(io) = 1 /\ TransportError)
         /\ ~io[1].err => Len(io) = 2
C15_Witness ==
  /\ Done("read_gpio")
  /\ Len(io) = 2
  /\ Empty(io[2])
  /\ MalformedResponse

\* C16: connected is true exactly when the handle holds an open transport,
\* and it is false after close_port.
C16_Connected ==
  /\ pc # "new" => (connected <=> device = "open")
  /\ Done("close_port") => ~connected

\* C17: for every retry_limit >= 0 and every sequence of read results
\* clear_buffer ends after at most retry_limit + 1 reads; when it returns,
\* it returns true exactly when its last read handed over zero bytes, also
\* when that read is read number retry_limit + 1.
C17_Terminates ==
  op = "clear_buffer" =>
    /\ Len(io) <= args.retry_limit + 1
    /\ Len(io) = args.retry_limit + 1 => pc = "idle"
    /\ (pc = "idle" /\ result.kind = "return") =>
         /\ Len(io) >= 1
         /\ result.value.t = "bool"
         /\ result.value.v <=> Empty(io[Len(io)])
C17_Witness ==
  /\ Done("clear_buffer")
  /\ args.retry_limit = 2
  /\ Len(io) = 3
  /\ NonEmpty(io[1]) /\ NonEmpty(io[2]) /\ Empty(io[3])
  /\ ReturnedBool(TRUE)

\* What a caller's last call read, when it has returned after a read.
HasRead(c) == ~InFlight(c) /\ calls[c].read
OwnAnswer(c) == calls[c].data \in LineAnswers(calls[c].op, calls[c].cmd)
StartsWith(s, prefix) == Len(s) >= Len(prefix) /\ Take(s, Len(prefix)) = prefix

\* C18: with a device that answers each command with an echo and a reply
\* that fit in the operation's read size and that sends nothing else, after
\* any sequence of command operations on a connected handle the input
\* buffer is empty whenever an operation has returned, and what each
\* operation read and decoded is the answer to its own command.
C18_Drained ==
  /\ (\A c \in Callers : ~InFlight(c)) => pending = <<>>
  /\ \A c \in Callers :
       HasRead(c) =>
         /\ OwnAnswer(c)
         /\ \E answer \in LineAnswers(calls[c].op, calls[c].cmd) :
              calls[c].result = LineDecode(calls[c], answer)
C18_Witness ==
  /\ HasRead("a") /\ calls["a"].op = "set_gpio"
  /\ HasRead("b") /\ calls["b"].op = "get_adc" /\ calls["b"].args.raw
  /\ calls["b"].result = Return(PyIntValue(IntBase10(<<"1","0","2","3">>)))
  /\ pending = <<>>

\* C19: the handle has no mutual exclusion. When two callers drive command
\* operations on it at once there is an interleaving in which one
\* operation's read receives the reply to the other's command; an
\* operation that no other operation overlaps always reads the reply to
\* its own command.
C19_OwnAnswerUnlessOverlapped ==
  \A c \in Callers : (HasRead(c) /\ ~calls[c].overlapped) => OwnAnswer(c)
C19_Witness ==
  /\ HasRead("b") /\ calls["b"].op = "get_relay" /\ calls["b"].overlapped
  /\ calls["a"].op = "read_gpio"
  /\ StartsWith(calls["b"].data, DeviceReply(calls["a"].cmd, <<"1">>))
  /\ ~OwnAnswer("b")
  /\ calls["b"].result
       = DecodeRelay(DeviceReply(calls["a"].cmd, <<"1">>), number_of_relays)

====
